---------------------------- MODULE Spec2Model ----------------------------
(* Model of tools/balance_simulator.py: the Monte Carlo balance simulator. *)
(* One game (simulate_game) is a state machine over the players list; the  *)
(* batch aggregator (run_simulation) is a second state machine over the    *)
(* per-strategy win tallies.                                               *)
EXTENDS Integers, Sequences, FiniteSets, TLC

VARIABLES
    pc,             \* position in simulate_game
    num_players,    \* argument of simulate_game
    wide_draws,     \* whether the random draws of this game are explored widely
    players,        \* list of Player records, in creation order
    era,            \* loop variable of `for era in range(12)`
    idx,            \* position of the inner `for player in players` loop (1-based)
    pool,           \* events of the shuffled list not yet drawn, per event name
    event,          \* events[era] of the current era (NoEvent before the first)
    available,      \* list passed to the strategy for players[idx]
    acquired,       \* list returned by the strategy for players[idx]
    last_buy,       \* history: the last pass of the running acquisition loop
    outcome,        \* history: the last simulate_extinction call of the era
    era_log,        \* history: the era's starting players and its random draws
    results,        \* results["players"] after the final sort
    winner,         \* results["winner"] (0 = None)
    num_games,      \* argument of run_simulation
    game_i,         \* loop variable of `for i in range(num_games)`
    strategy_wins,  \* defaultdict(int): strategies with an entry, and their count
    verdict         \* what the balance assessment printed

vars == << pc, num_players, wide_draws, players, era, idx, pool, event, available, acquired,
           last_buy, outcome, era_log, results, winner, num_games, game_i,
           strategy_wins, verdict >>

gameVars == << pc, num_players, wide_draws, players, era, idx, pool, event, available,
               acquired, last_buy, outcome, era_log, results, winner >>

batchVars == << num_games, game_i, strategy_wins, verdict >>

-----------------------------------------------------------------------------
(* Bounds of the exploration *)

MaxPlayers == 3

MaxGames == 3

\* the strategies on their own: longest list offered, largest budget
MaxAvail == 3

MaxBudget == 12

-----------------------------------------------------------------------------
(* Program constants *)

NumEras == 12

MaxMarkers == 12

StartMarkers == 3

MinStartAlleles == 2

MaxStartAlleles == 12

MaxDiscount == 3

DefaultNeutralRoll == 4

TileScore == 3

\* the imbalance threshold 0.15 of line 374, as ThresholdNum / ThresholdDen
ThresholdNum == 15

ThresholdDen == 100

strategies == << "generalist", "Mammalia", "Aves", "Crocodilia" >>

survival_tags == {"Burrowing", "Small", "Freshwater", "Deep-Sea", "Cold-Resistant"}

SeedTrait == "bilateral_symmetry"

NotInPath == 999


-----------------------------------------------------------------------------
(* Reference data: what load_game_data returns.  The tables are read-only. *)
(* Trait ids are taken from the clade paths of specialist_strategy.        *)

TraitOrder ==
    << "bilateral_symmetry", "burrowing", "synapsid_skull", "diapsid_skull",
       "endothermy", "fur" >>

TraitDb ==
    [ bilateral_symmetry |->
        [ era_min |-> 0, era_max |-> 11, cost |-> 0, complexity |-> 1,
          tags |-> {}, hard_prereqs |-> {}, soft_prereqs |-> {},
          fecundity_bonus |-> 0 ],
      burrowing |->
        [ era_min |-> 0, era_max |-> 11, cost |-> 5, complexity |-> 1,
          tags |-> {"Burrowing", "Small"}, hard_prereqs |-> {},
          soft_prereqs |-> {}, fecundity_bonus |-> 0 ],
      synapsid_skull |->
        [ era_min |-> 1, era_max |-> 3, cost |-> 9, complexity |-> 2,
          tags |-> {"Large"}, hard_prereqs |-> {},
          soft_prereqs |-> {"bilateral_symmetry"}, fecundity_bonus |-> 0 ],
      diapsid_skull |->
        [ era_min |-> 1, era_max |-> 4, cost |-> 3, complexity |-> 2,
          tags |-> {}, hard_prereqs |-> {},
          soft_prereqs |-> {"bilateral_symmetry", "burrowing", "synapsid_skull"},
          fecundity_bonus |-> 0 ],
      endothermy |->
        [ era_min |-> 1, era_max |-> 11, cost |-> 60, complexity |-> 3,
          tags |-> {"Cold-Resistant"}, hard_prereqs |-> {"synapsid_skull"},
          soft_prereqs |-> {"bilateral_symmetry", "burrowing", "synapsid_skull",
                            "diapsid_skull"},
          fecundity_bonus |-> 1 ],
      fur |->
        [ era_min |-> 0, era_max |-> 11, cost |-> 7, complexity |-> 2,
          tags |-> {"Cold-Resistant"}, hard_prereqs |-> {},
          soft_prereqs |-> {"endothermy", "synapsid_skull"},
          fecundity_bonus |-> 0 ] ]

TraitIds == DOMAIN TraitDb

\* neutral_roll 0 stands for None (`event.neutral_roll or 4` reads both alike)
EventDb ==
    [ Bloom |->
        [ event_type |-> "positive", safe_tags |-> {}, doomed_tags |-> {},
          neutral_roll |-> 0 ],
      IceAge |->
        [ event_type |-> "extinction", safe_tags |-> {"Burrowing", "Cold-Resistant"},
          doomed_tags |-> {"Small", "Large"}, neutral_roll |-> 0 ],
      Impact |->
        [ event_type |-> "extinction", safe_tags |-> {},
          doomed_tags |-> {"Small"}, neutral_roll |-> 6 ] ]

EventNames == DOMAIN EventDb

\* all_events: how many events of each name the event table holds
all_events == [ Bloom |-> 11, IceAge |-> 1, Impact |-> 1 ]

clade_paths ==
    [ Mammalia |-> << "synapsid_skull", "endothermy", "fur", "mammary_glands",
                      "live_birth", "placenta" >>,
      Aves |-> << "diapsid_skull", "archosaur_posture", "hollow_bones",
                  "feathers", "flight" >>,
      Crocodilia |-> << "diapsid_skull", "archosaur_posture", "osteoderms",
                        "crocodilian_form", "scales_reptilian", "burrowing" >>,
      Insecta |-> << "segmentation", "exoskeleton", "six_legs", "insect_flight",
                     "metamorphosis" >> ]

-----------------------------------------------------------------------------
(* Random draws.  A game whose draws are explored widely takes Samples     *)
(* points of every random range (both ends first); any other game takes    *)
(* the lowest draw only, and its players differ by strategy, by the order  *)
(* of the events and by their extinction rolls.                            *)

Samples == 2

Spread(lo, hi) ==
    IF Samples >= hi - lo + 1 THEN lo..hi
    ELSE { lo + ((hi - lo) * j) \div (Samples - 1) : j \in 0..(Samples - 1) }

Draws(lo, hi) == IF wide_draws THEN Spread(lo, hi) ELSE {lo}

\* random.randint(1, 6) of the extinction roll, line 162
DieFaces == 1..6

\* random.randint(1, 6) of each income die, line 125
IncomeDice == Draws(1, 6)

\* random.randint(2, 12), line 258
StartAlleles == Draws(MinStartAlleles, MaxStartAlleles)

\* random.randint(1, 3), line 288
TileDraws == IF wide_draws THEN 1..3 ELSE {1}

-----------------------------------------------------------------------------
(* Player methods *)

Range(s) == { s[i] : i \in DOMAIN s }

RECURSIVE SumSeq(_)
SumSeq(s) == IF s = << >> THEN 0 ELSE Head(s) + SumSeq(Tail(s))

Known(traits) == SelectSeq(traits, LAMBDA tid : tid \in TraitIds)

get_tags(p) == UNION { TraitDb[tid].tags : tid \in Range(Known(p.traits)) }

get_complexity(p) ==
    LET k == Known(p.traits)
    IN  SumSeq([ i \in DOMAIN k |-> TraitDb[k[i]].complexity ])

get_fecundity_bonus(p) ==
    LET k == Known(p.traits)
    IN  SumSeq([ i \in DOMAIN k |-> TraitDb[k[i]].fecundity_bonus ])

\* mutant: the era window is not looked at
can_acquire_any_era(p, tid, current_era) ==
    \A prereq \in TraitDb[tid].hard_prereqs : prereq \in Range(p.traits)

\* mutant: the hard prerequisites are not looked at
can_acquire_without_prereqs(p, tid, current_era) ==
    ~ (current_era < TraitDb[tid].era_min \/ current_era > TraitDb[tid].era_max)

can_acquire(p, tid, current_era) ==
    /\ ~ (current_era < TraitDb[tid].era_min \/ current_era > TraitDb[tid].era_max)
    /\ \A prereq \in TraitDb[tid].hard_prereqs : prereq \in Range(p.traits)

Min2(a, b) == IF a <= b THEN a ELSE b

Max2(a, b) == IF a >= b THEN a ELSE b

soft_count(p, tid) ==
    Cardinality({ q \in TraitDb[tid].soft_prereqs : q \in Range(p.traits) })

\* mutant: the discount is not capped
get_cost_uncapped(p, tid) ==
    Max2(0, TraitDb[tid].cost - soft_count(p, tid))

get_cost(p, tid) ==
    LET discount == Min2(soft_count(p, tid), MaxDiscount)
    IN  Max2(0, TraitDb[tid].cost - discount)

score(p) == p.markers * get_complexity(p) + p.tiles_controlled * TileScore

-----------------------------------------------------------------------------
(* Turn engine helpers *)

\* mutant: the tiles are left out of the income
simulate_allele_roll_without_tiles(p, d1, d2) ==
    LET base == d1 + d2
        pop_bonus == IF p.markers >= 7 THEN 2
                     ELSE IF p.markers >= 4 THEN 1 ELSE 0
        fecundity == get_fecundity_bonus(p)
    IN  base + pop_bonus + fecundity

simulate_allele_roll(p, d1, d2) ==
    LET base == d1 + d2
        pop_bonus == IF p.markers >= 7 THEN 2
                     ELSE IF p.markers >= 4 THEN 1 ELSE 0
        tile_bonus == p.tiles_controlled
        fecundity == get_fecundity_bonus(p)
    IN  base + pop_bonus + tile_bonus + fecundity

\* mutant: the loss is not clamped at one marker
take_losses_unclamped(m) ==
    m - ((m + 1) \div 2)

\* the markers left after a loss, lines 157-158 and 169-170
take_losses(m) ==
    LET losses == (m + 1) \div 2
    IN  Max2(1, m - losses)

\* mutant: the event's own threshold is not read
neutral_threshold_default(ev) == DefaultNeutralRoll

\* `event.neutral_roll or 4`, line 163 (0 stands for None)
neutral_threshold(ev) ==
    IF ev.neutral_roll # 0 THEN ev.neutral_roll ELSE DefaultNeutralRoll

\* mutant: the doomed tags are looked at before the safe tags
simulate_extinction_doomed_first(p, ev, roll) ==
    LET tags == get_tags(p)
        has_safe == (tags \cap ev.safe_tags) # {}
        has_doomed == (tags \cap ev.doomed_tags) # {}
        threshold == neutral_threshold(ev)
        counted == [p EXCEPT !.extinctions_survived = @ + 1]
        lost == [counted EXCEPT !.markers = take_losses(p.markers)]
    IN  IF ev.event_type # "extinction" THEN [p |-> p, ret |-> TRUE, roll |-> 0]
        ELSE IF has_doomed THEN [p |-> lost, ret |-> FALSE, roll |-> 0]
        ELSE IF has_safe THEN [p |-> counted, ret |-> TRUE, roll |-> 0]
        ELSE IF roll >= threshold THEN [p |-> counted, ret |-> TRUE, roll |-> roll]
        ELSE [p |-> lost, ret |-> FALSE, roll |-> roll]

\* mutant: an event of any type is resolved as an extinction
simulate_extinction_any_type(p, ev, roll) ==
    LET tags == get_tags(p)
        has_safe == (tags \cap ev.safe_tags) # {}
        has_doomed == (tags \cap ev.doomed_tags) # {}
        threshold == neutral_threshold(ev)
        counted == [p EXCEPT !.extinctions_survived = @ + 1]
        lost == [counted EXCEPT !.markers = take_losses(p.markers)]
    IN  IF has_safe THEN [p |-> counted, ret |-> TRUE, roll |-> 0]
        ELSE IF has_doomed THEN [p |-> lost, ret |-> FALSE, roll |-> 0]
        ELSE IF roll >= threshold THEN [p |-> counted, ret |-> TRUE, roll |-> roll]
        ELSE [p |-> lost, ret |-> FALSE, roll |-> roll]

\* mutant: an extinction that costs markers is not counted
simulate_extinction_counting_survivals(p, ev, roll) ==
    LET tags == get_tags(p)
        has_safe == (tags \cap ev.safe_tags) # {}
        has_doomed == (tags \cap ev.doomed_tags) # {}
        threshold == neutral_threshold(ev)
        counted == [p EXCEPT !.extinctions_survived = @ + 1]
        lost == [p EXCEPT !.markers = take_losses(p.markers)]
    IN  IF ev.event_type # "extinction" THEN [p |-> p, ret |-> TRUE, roll |-> 0]
        ELSE IF has_safe THEN [p |-> counted, ret |-> TRUE, roll |-> 0]
        ELSE IF has_doomed THEN [p |-> lost, ret |-> FALSE, roll |-> 0]
        ELSE IF roll >= threshold THEN [p |-> counted, ret |-> TRUE, roll |-> roll]
        ELSE [p |-> lost, ret |-> FALSE, roll |-> roll]

\* [p |-> the player afterwards, ret |-> the value returned, roll |-> the die
\* of line 162, 0 when the call returned before rolling it]
simulate_extinction(p, ev, roll) ==
    LET tags == get_tags(p)
        has_safe == (tags \cap ev.safe_tags) # {}
        has_doomed == (tags \cap ev.doomed_tags) # {}
        threshold == neutral_threshold(ev)
        counted == [p EXCEPT !.extinctions_survived = @ + 1]
        lost == [counted EXCEPT !.markers = take_losses(p.markers)]
    IN  IF ev.event_type # "extinction" THEN [p |-> p, ret |-> TRUE, roll |-> 0]
        ELSE IF has_safe THEN [p |-> counted, ret |-> TRUE, roll |-> 0]
        ELSE IF has_doomed THEN [p |-> lost, ret |-> FALSE, roll |-> 0]
        ELSE IF roll >= threshold THEN [p |-> counted, ret |-> TRUE, roll |-> roll]
        ELSE [p |-> lost, ret |-> FALSE, roll |-> roll]

\* mutant: the traits already owned are offered again
get_available_traits_with_owned(p, e) ==
    SelectSeq(TraitOrder, LAMBDA tid : can_acquire(p, tid, e))

get_available_traits(p, e) ==
    SelectSeq(TraitOrder,
              LAMBDA tid : tid \notin Range(p.traits) /\ can_acquire(p, tid, e))

\* tuple comparison of two sort keys of the same length
KeyLess(a, b) ==
    \E i \in DOMAIN a : a[i] < b[i] /\ \A j \in 1..(i - 1) : a[j] = b[j]

\* sorted(s, key=...), keys[i] the key of s[i]: stable, so equal keys keep
\* the order of s
Sorted(s, keys) ==
    LET n == Len(s)
        Before(i, j) == \/ KeyLess(keys[i], keys[j])
                        \/ keys[i] = keys[j] /\ i < j
        rank(i) == Cardinality({ j \in 1..n : Before(j, i) }) + 1
    IN  [ k \in 1..n |-> s[CHOOSE i \in 1..n : rank(i) = k] ]

\* mutant: the loop takes every trait, whatever the budget
RECURSIVE GreedyWithoutBudget(_, _, _)
GreedyWithoutBudget(p, sorted_traits, remaining) ==
    IF sorted_traits = << >> THEN << >>
    ELSE << Head(sorted_traits) >>
           \o GreedyWithoutBudget(p, Tail(sorted_traits), remaining)

\* the greedy loop shared by both strategies, lines 197-206 and 229-238
RECURSIVE Greedy(_, _, _)
Greedy(p, sorted_traits, remaining) ==
    IF sorted_traits = << >> THEN << >>
    ELSE LET tid == Head(sorted_traits)
             cost == get_cost(p, tid)
         IN  IF cost <= remaining
             THEN << tid >> \o Greedy(p, Tail(sorted_traits), remaining - cost)
             ELSE Greedy(p, Tail(sorted_traits), remaining)

\* mutant: the cost is compared before the survival tags
generalist_key_cost_first(p, tid) ==
    << get_cost(p, tid), 0 - Cardinality(TraitDb[tid].tags \cap survival_tags) >>

generalist_key(p, tid) ==
    << 0 - Cardinality(TraitDb[tid].tags \cap survival_tags), get_cost(p, tid) >>

\* mutant: the strategy pays from the player's balance as it picks
generalist_strategy_spending(p, avail, alleles) ==
    LET picked == Greedy(p, Sorted(avail, [ i \in DOMAIN avail |->
                                              generalist_key(p, avail[i]) ]),
                         alleles)
        spent == SumSeq([ i \in DOMAIN picked |-> get_cost(p, picked[i]) ])
    IN  [ acquired |-> picked,
          player |-> [p EXCEPT !.alleles = @ - spent],
          available |-> avail ]

\* A strategy gets references to the player and to the available list: what
\* it returns is its list together with both objects as the call leaves them.
\* (sorted_traits is bound to its value once, then walked by the loop.)
generalist_strategy(p, avail, alleles) ==
    LET runs == { Greedy(p, sorted_traits, alleles) :
                    sorted_traits \in
                      { Sorted(avail, [ i \in DOMAIN avail |->
                                         generalist_key(p, avail[i]) ]) } }
    IN  [ acquired |-> CHOOSE picked \in runs : TRUE,
          player |-> p,
          available |-> avail ]

target_traits(target_clade) ==
    IF target_clade \in DOMAIN clade_paths THEN clade_paths[target_clade] ELSE << >>

\* mutant: the cost is compared before the place in the path
priority_cost_first(p, tid, target_clade) ==
    LET path == target_traits(target_clade)
        in_path == tid \in Range(path)
        path_index == IF in_path
                      THEN (CHOOSE i \in DOMAIN path : path[i] = tid) - 1
                      ELSE NotInPath
    IN  << get_cost(p, tid), (IF in_path THEN -1 ELSE 0), path_index >>

priority(p, tid, target_clade) ==
    LET path == target_traits(target_clade)
        in_path == tid \in Range(path)
        path_index == IF in_path
                      THEN (CHOOSE i \in DOMAIN path : path[i] = tid) - 1
                      ELSE NotInPath
    IN  << (IF in_path THEN -1 ELSE 0), path_index, get_cost(p, tid) >>

specialist_strategy(p, avail, alleles, target_clade) ==
    LET runs == { Greedy(p, sorted_traits, alleles) :
                    sorted_traits \in
                      { Sorted(avail, [ i \in DOMAIN avail |->
                                         priority(p, avail[i], target_clade) ]) } }
    IN  [ acquired |-> CHOOSE picked \in runs : TRUE,
          player |-> p,
          available |-> avail ]

\* the dispatch of lines 274-277
choose(p, avail) ==
    IF p.strategy = "generalist"
    THEN generalist_strategy(p, avail, p.alleles)
    ELSE specialist_strategy(p, avail, p.alleles, p.strategy)

\* mutant: the undiscounted cost is deducted
acquire_one_full_price(p, tid) ==
    LET cost == get_cost(p, tid)
    IN  IF cost <= p.alleles
        THEN [p EXCEPT !.traits = Append(@, tid), !.alleles = @ - TraitDb[tid].cost]
        ELSE p

\* one pass of the loop body of lines 280-284
acquire_one(p, tid) ==
    LET cost == get_cost(p, tid)
    IN  IF cost <= p.alleles
        THEN [p EXCEPT !.traits = Append(@, tid), !.alleles = @ - cost]
        ELSE p

\* the whole loop of lines 279-284
RECURSIVE acquire_all(_, _)
acquire_all(p, ids) ==
    IF ids = << >> THEN p
    ELSE acquire_all(acquire_one(p, Head(ids)), Tail(ids))

\* mutant: the population grows without the cap
refresh_uncapped(p, tiles) ==
    [p EXCEPT !.markers = p.markers + 1, !.tiles_controlled = tiles]

refresh(p, tiles) ==
    [p EXCEPT !.markers = Min2(MaxMarkers, p.markers + 1),
              !.tiles_controlled = tiles]

new_player(i, alleles) ==
    [ name |-> i + 1,
      strategy |-> strategies[(i % Len(strategies)) + 1],
      traits |-> << SeedTrait >>,
      markers |-> StartMarkers,
      alleles |-> alleles,
      tiles_controlled |-> 0,
      extinctions_survived |-> 0 ]

summary(p) ==
    [ name |-> p.name, strategy |-> p.strategy, score |-> score(p),
      markers |-> p.markers, complexity |-> get_complexity(p),
      traits |-> Len(p.traits),
      extinctions_survived |-> p.extinctions_survived ]

\* mutant: an ascending sort read backwards, which turns the ties around
sort_by_score_backwards(rs) ==
    Sorted(rs, [ i \in DOMAIN rs |-> << 0 - rs[i].score, 0 - rs[i].name >> ])

\* results["players"].sort(key=score, reverse=True): stable, ties keep list order
sort_by_score(rs) == Sorted(rs, [ i \in DOMAIN rs |-> << 0 - rs[i].score >> ])

-----------------------------------------------------------------------------
(* simulate_game *)

NoEvent ==
    [ event_type |-> "", safe_tags |-> {}, doomed_tags |-> {}, neutral_roll |-> 0 ]

NoBuy == [ seat |-> 0, tid |-> "", alleles_before |-> 0, taken |-> FALSE ]

NoOutcome == [ seat |-> 0, markers_before |-> 0, survived_full |-> TRUE, roll |-> 0 ]

\* the log of a game that keeps none
NoLog ==
    [ on |-> FALSE, start |-> << >>, prev_tiles |-> << >>, dice |-> << >>,
      tiles |-> << >>, rolls |-> << >> ]

\* the log at the top of an era: the players as the era finds them and the
\* tiles drawn in the era before
era_begins(ps, drawn) ==
    IF era_log.on
    THEN [ on |-> TRUE, start |-> ps, prev_tiles |-> drawn, dice |-> << >>,
           tiles |-> << >>, rolls |-> << >> ]
    ELSE era_log

\* the log with one more draw of the running loop
logged(field, draw) ==
    IF era_log.on THEN [era_log EXCEPT ![field] = Append(@, draw)] ELSE era_log

NoBatch ==
    /\ num_games = 0
    /\ game_i = 0
    /\ strategy_wins = << >>
    /\ verdict = ""

\* one seat at most with wide draws, several seats with narrow draws
Init ==
    /\ pc = "NotStarted"
    /\ num_players \in -1..MaxPlayers
    /\ wide_draws = (num_players <= 1)
    /\ players = << >>
    /\ era = 0
    /\ idx = 1
    /\ pool = all_events
    /\ event = NoEvent
    /\ available = << >>
    /\ acquired = << >>
    /\ last_buy = NoBuy
    /\ outcome = NoOutcome
    /\ era_log = NoLog
    /\ results = << >>
    /\ winner = 0
    /\ NoBatch

\* lines 243-259: load the tables, shuffle the events, seat the players
Start ==
    /\ pc = "NotStarted"
    /\ \E a \in [ 1..Max2(0, num_players) -> StartAlleles ] :
         \E seated_players \in
                { [ i \in 1..Max2(0, num_players) |-> new_player(i - 1, a[i]) ] } :
             /\ players' = seated_players
             /\ era_log' = era_begins(seated_players, << >>)
    /\ era' = 0
    /\ idx' = 1
    /\ pc' = "income"
    /\ UNCHANGED << num_players, wide_draws, pool, event, available, acquired, last_buy,
                    outcome, results, winner >>
    /\ UNCHANGED batchVars

\* mutant: every player's income is worked out from the first player
IncomeOfFirstSeat ==
    /\ pc = "income"
    /\ idx <= Len(players)
    /\ \E d1 \in IncomeDice, d2 \in IncomeDice :
         \E income \in { simulate_allele_roll(players[1], d1, d2) } :
             /\ players' = [players EXCEPT ![idx].alleles = @ + income]
             /\ era_log' = logged("dice", << d1, d2, income >>)
    /\ idx' = idx + 1
    /\ UNCHANGED << pc, num_players, wide_draws, era, pool, event, available, acquired,
                    last_buy, outcome, results, winner >>
    /\ UNCHANGED batchVars

\* lines 267-269, one player
Income ==
    /\ pc = "income"
    /\ idx <= Len(players)
    /\ \E d1 \in IncomeDice, d2 \in IncomeDice :
         \E income \in { simulate_allele_roll(players[idx], d1, d2) } :
             /\ players' = [players EXCEPT ![idx].alleles = @ + income]
             /\ era_log' = logged("dice", << d1, d2, income >>)
    /\ idx' = idx + 1
    /\ UNCHANGED << pc, num_players, wide_draws, era, pool, event, available, acquired,
                    last_buy, outcome, results, winner >>
    /\ UNCHANGED batchVars

IncomeDone ==
    /\ pc = "income"
    /\ idx > Len(players)
    /\ pc' = "choose"
    /\ idx' = 1
    /\ UNCHANGED << num_players, wide_draws, players, era, pool, event, available, acquired,
                    last_buy, outcome, results, winner,
                    era_log >>
    /\ UNCHANGED batchVars

\* lines 272-277: the available traits and the strategy call for players[idx]
Choose ==
    /\ pc = "choose"
    /\ idx <= Len(players)
    /\ \E call \in { choose(players[idx], get_available_traits(players[idx], era)) } :
         /\ acquired' = call.acquired
         /\ players' = [players EXCEPT ![idx] = call.player]
         /\ available' = call.available
    /\ pc' = "acquire"
    /\ UNCHANGED << num_players, wide_draws, era, idx, pool, event, last_buy, outcome,
                    results, winner,
                    era_log >>
    /\ UNCHANGED batchVars

\* lines 279-284: one pass of `for tid in acquired`
AcquireOne ==
    /\ pc = "acquire"
    /\ acquired # << >>
    /\ \E after \in { acquire_one(players[idx], Head(acquired)) } :
         /\ players' = [players EXCEPT ![idx] = after]
         /\ last_buy' = [ seat |-> idx, tid |-> Head(acquired),
                          alleles_before |-> players[idx].alleles,
                          taken |-> after.traits # players[idx].traits ]
    /\ acquired' = Tail(acquired)
    /\ UNCHANGED << pc, num_players, wide_draws, era, idx, pool, event, available, outcome,
                    results, winner,
                    era_log >>
    /\ UNCHANGED batchVars

\* the acquisition loop of players[idx] is over: on to the next player
AcquireNext ==
    /\ pc = "acquire"
    /\ acquired = << >>
    /\ available' = << >>
    /\ last_buy' = NoBuy
    /\ idx' = idx + 1
    /\ pc' = "choose"
    /\ UNCHANGED << num_players, wide_draws, players, era, pool, event, acquired, outcome,
                    results, winner,
                    era_log >>
    /\ UNCHANGED batchVars

AcquireDone ==
    /\ pc = "choose"
    /\ idx > Len(players)
    /\ pc' = "refresh"
    /\ idx' = 1
    /\ UNCHANGED << num_players, wide_draws, players, era, pool, event, available, acquired,
                    last_buy, outcome, results, winner,
                    era_log >>
    /\ UNCHANGED batchVars

\* lines 286-288, one player
Refresh ==
    /\ pc = "refresh"
    /\ idx <= Len(players)
    /\ \E tiles \in TileDraws :
         /\ players' = [players EXCEPT ![idx] = refresh(@, tiles)]
         /\ era_log' = logged("tiles", tiles)
    /\ idx' = idx + 1
    /\ UNCHANGED << pc, num_players, wide_draws, era, pool, event, available, acquired,
                    last_buy, outcome, results, winner >>
    /\ UNCHANGED batchVars

\* line 290: event = events[era], the next event of the shuffled list
DrawEvent ==
    /\ pc = "refresh"
    /\ idx > Len(players)
    /\ \E name \in EventNames :
         /\ pool[name] > 0
         /\ event' = EventDb[name]
         /\ pool' = [pool EXCEPT ![name] = @ - 1]
    /\ pc' = "event"
    /\ idx' = 1
    /\ UNCHANGED << num_players, wide_draws, players, era, available, acquired, last_buy,
                    outcome, results, winner,
                    era_log >>
    /\ UNCHANGED batchVars

\* lines 291-292, one player
Resolve ==
    /\ pc = "event"
    /\ idx <= Len(players)
    /\ \E roll \in DieFaces :
         \E call \in { simulate_extinction(players[idx], event, roll) } :
             /\ players' = [players EXCEPT ![idx] = call.p]
             /\ outcome' = [ seat |-> idx,
                             markers_before |-> players[idx].markers,
                             survived_full |-> call.ret,
                             roll |-> call.roll ]
             /\ era_log' = logged("rolls", call.roll)
    /\ idx' = idx + 1
    /\ UNCHANGED << pc, num_players, wide_draws, era, pool, event, available, acquired,
                    last_buy, results, winner >>
    /\ UNCHANGED batchVars

\* mutant: the era counter runs ahead of the events drawn
EraDoneSkipping ==
    /\ pc = "event"
    /\ idx > Len(players)
    /\ era < NumEras
    /\ era' = IF era + 2 < NumEras THEN era + 2 ELSE NumEras
    /\ pc' = IF era + 2 < NumEras THEN "income" ELSE "score"
    /\ idx' = 1
    /\ outcome' = NoOutcome
    /\ era_log' = era_begins(players, era_log.tiles)
    /\ UNCHANGED << num_players, wide_draws, players, pool, event, available, acquired,
                    last_buy, results, winner >>
    /\ UNCHANGED batchVars

\* the end of one pass of `for era in range(12)`
EraDone ==
    /\ pc = "event"
    /\ idx > Len(players)
    /\ era < NumEras
    /\ era' = era + 1
    /\ pc' = IF era + 1 < NumEras THEN "income" ELSE "score"
    /\ idx' = 1
    /\ outcome' = NoOutcome
    /\ era_log' = era_begins(players, era_log.tiles)
    /\ UNCHANGED << num_players, wide_draws, players, pool, event, available, acquired,
                    last_buy, results, winner >>
    /\ UNCHANGED batchVars

\* lines 297-319: the summaries, the sort, the winner
Score ==
    /\ pc = "score"
    /\ \E ranked \in
            { sort_by_score([ i \in 1..Len(players) |-> summary(players[i]) ]) } :
         /\ results' = ranked
         /\ IF Len(players) = 0
            THEN pc' = "IndexError" /\ winner' = 0
            ELSE pc' = "Finished" /\ winner' = ranked[1].name
    /\ UNCHANGED << num_players, wide_draws, players, era, idx, pool, event, available,
                    acquired, last_buy, outcome,
                    era_log >>
    /\ UNCHANGED batchVars

Next ==
    \/ Start
    \/ Income
    \/ IncomeDone
    \/ Choose
    \/ AcquireOne
    \/ AcquireNext
    \/ AcquireDone
    \/ Refresh
    \/ DrawEvent
    \/ Resolve
    \/ EraDone
    \/ Score

Spec == Init /\ [][Next]_vars

\* every seat count with narrow draws
NarrowInit ==
    /\ pc = "NotStarted"
    /\ num_players \in -1..MaxPlayers
    /\ wide_draws = FALSE
    /\ players = << >>
    /\ era = 0
    /\ idx = 1
    /\ pool = all_events
    /\ event = NoEvent
    /\ available = << >>
    /\ acquired = << >>
    /\ last_buy = NoBuy
    /\ outcome = NoOutcome
    /\ era_log = NoLog
    /\ results = << >>
    /\ winner = 0
    /\ NoBatch

\* simulate_game is straight-line sequential code: the step that is next is taken
FairSpec == NarrowInit /\ [][Next]_vars /\ WF_vars(Next)

\* a game that keeps the log of each era: every seat count, narrow draws
LoggedInit ==
    /\ pc = "NotStarted"
    /\ num_players \in 1..MaxPlayers
    /\ wide_draws = FALSE
    /\ players = << >>
    /\ era = 0
    /\ idx = 1
    /\ pool = all_events
    /\ event = NoEvent
    /\ available = << >>
    /\ acquired = << >>
    /\ last_buy = NoBuy
    /\ outcome = NoOutcome
    /\ era_log = [NoLog EXCEPT !.on = TRUE]
    /\ results = << >>
    /\ winner = 0
    /\ NoBatch

LoggedSpec == LoggedInit /\ [][Next]_vars

-----------------------------------------------------------------------------
(* simulate_extinction on its own: any player record, any event record     *)

TraitLists ==
    { << SeedTrait >>,
      << SeedTrait, "burrowing" >>,
      << SeedTrait, "synapsid_skull" >>,
      << SeedTrait, "burrowing", "synapsid_skull" >>,
      << SeedTrait, "synapsid_skull", "endothermy" >>,
      << SeedTrait, "diapsid_skull" >> }

TagChoices == { {}, {"Burrowing"}, {"Small"}, {"Large", "Cold-Resistant"} }

EventRecords ==
    [ event_type : {"extinction", "positive"},
      safe_tags : TagChoices,
      doomed_tags : TagChoices,
      neutral_roll : 0..6 ]

ExtinctionInit ==
    /\ pc = "event"
    /\ num_players \in 1..2
    /\ wide_draws = FALSE
    /\ \E m \in 1..MaxMarkers, t \in TraitLists :
         players = SubSeq(<< [ new_player(0, MinStartAlleles) EXCEPT
                                 !.markers = m, !.traits = t,
                                 !.tiles_controlled = 1 ],
                             [ new_player(1, MaxStartAlleles) EXCEPT
                                 !.tiles_controlled = 2 ] >>,
                          1, num_players)
    /\ era = 0
    /\ idx = 1
    /\ pool = all_events
    /\ event \in EventRecords
    /\ available = << >>
    /\ acquired = << >>
    /\ last_buy = NoBuy
    /\ outcome = NoOutcome
    /\ era_log = NoLog
    /\ results = << >>
    /\ winner = 0
    /\ NoBatch

ExtinctionSpec == ExtinctionInit /\ [][Resolve]_vars

-----------------------------------------------------------------------------
(* The strategies on their own: any player, any list of traits not owned,  *)
(* any budget                                                              *)

\* the lists of distinct ids of S of length n
RECURSIVE ListsOf(_, _)
ListsOf(S, n) ==
    IF n = 0 THEN { << >> }
    ELSE { Append(l, x) : l \in ListsOf(S, n - 1), x \in S } \cap
         { l \in [ 1..n -> S ] : \A i, j \in 1..n : l[i] = l[j] => i = j }

OfferedLists(owned) ==
    UNION { ListsOf(TraitIds \ Range(owned), n) : n \in 0..MaxAvail }

StrategyInit ==
    /\ pc = "strategy"
    /\ num_players = 1
    /\ wide_draws = FALSE
    /\ \E b \in 0..MaxBudget, s \in Range(strategies) \cup {"Insecta"},
          t \in TraitLists \cup { << >> } :
         players = << [ new_player(0, b) EXCEPT !.strategy = s, !.traits = t ] >>
    /\ era = 0
    /\ idx = 1
    /\ pool = all_events
    /\ event = NoEvent
    /\ available \in OfferedLists(players[1].traits)
    /\ acquired = << >>
    /\ last_buy = NoBuy
    /\ outcome = NoOutcome
    /\ era_log = NoLog
    /\ results = << >>
    /\ winner = 0
    /\ NoBatch

\* lines 274-277: the strategy call on the list offered
CallStrategy ==
    /\ pc = "strategy"
    /\ \E call \in { choose(players[idx], available) } :
         /\ acquired' = call.acquired
         /\ players' = [players EXCEPT ![idx] = call.player]
         /\ available' = call.available
    /\ pc' = "returned"
    /\ UNCHANGED << num_players, wide_draws, era, idx, pool, event, last_buy, outcome,
                    era_log, results, winner >>
    /\ UNCHANGED batchVars

StrategySpec == StrategyInit /\ [][CallStrategy]_vars

-----------------------------------------------------------------------------
(* run_simulation: the batch aggregator.  A game is taken as a whole here: *)
(* simulate_game returns a ranking whose first entry is one of the seated  *)
(* players, or raises when nobody is seated.                               *)

\* the strategies of the seats 0..n-1, line 252
seated(n) == { strategies[(i % Len(strategies)) + 1] : i \in 0..(n - 1) }

\* strategy_wins[winner_strat] += 1 on a defaultdict(int)
count_win(wins, strat) ==
    IF strat \in DOMAIN wins
    THEN [wins EXCEPT ![strat] = @ + 1]
    ELSE [ s \in DOMAIN wins \cup {strat} |-> IF s = strat THEN 1 ELSE wins[s] ]

MaxOf(S) == CHOOSE x \in S : \A y \in S : y <= x

MinOf(S) == CHOOSE x \in S : \A y \in S : x <= y

\* lines 370-377; the rates w / num_games are compared as integers
assess(wins, n) ==
    LET counts == { wins[s] : s \in DOMAIN wins }
    IN  IF counts = {} THEN "ValueError"
        ELSE IF (MaxOf(counts) - MinOf(counts)) * ThresholdDen < ThresholdNum * n
        THEN "BALANCED"
        ELSE "IMBALANCED"

BatchInit ==
    /\ pc = "NotStarted"
    /\ num_players \in 0..Len(strategies)
    /\ wide_draws = FALSE
    /\ players = << >>
    /\ era = 0
    /\ idx = 1
    /\ pool = all_events
    /\ event = NoEvent
    /\ available = << >>
    /\ acquired = << >>
    /\ last_buy = NoBuy
    /\ outcome = NoOutcome
    /\ era_log = NoLog
    /\ results = << >>
    /\ winner = 0
    /\ num_games \in 0..MaxGames
    /\ game_i = 0
    /\ strategy_wins = << >>
    /\ verdict = ""

\* lines 332-339, one game
PlayGame ==
    /\ verdict = ""
    /\ game_i < num_games
    /\ num_players >= 1
    /\ \E winner_strat \in seated(num_players) :
         strategy_wins' = count_win(strategy_wins, winner_strat)
    /\ game_i' = game_i + 1
    /\ UNCHANGED << num_games, verdict >>
    /\ UNCHANGED gameVars

\* line 336 with nobody seated: simulate_game raises at its line 317
GameRaises ==
    /\ verdict = ""
    /\ game_i < num_games
    /\ num_players <= 0
    /\ verdict' = "IndexError"
    /\ UNCHANGED << num_games, game_i, strategy_wins >>
    /\ UNCHANGED gameVars

\* lines 370-381, after the last game
Assess ==
    /\ verdict = ""
    /\ game_i = num_games
    /\ verdict' = assess(strategy_wins, num_games)
    /\ UNCHANGED << num_games, game_i, strategy_wins >>
    /\ UNCHANGED gameVars

BatchNext ==
    \/ PlayGame
    \/ GameRaises
    \/ Assess

BatchSpec == BatchInit /\ [][BatchNext]_vars

-----------------------------------------------------------------------------
(* Properties *)

Seats == DOMAIN players

\* simulate_extinction has just returned for seat i and nothing has run since
Resolved(i) == pc = "event" /\ outcome.seat = i /\ idx = i + 1

Extinction == event.event_type = "extinction"

HasSafe(i) == (get_tags(players[i]) \cap event.safe_tags) # {}

HasDoomed(i) == (get_tags(players[i]) \cap event.doomed_tags) # {}

\* C1: in every state of a game, whatever the events and the dice, every
\* player's markers is an integer from 1 to 12.
C1_MarkersInRange ==
    \A i \in Seats : players[i].markers \in 1..MaxMarkers

\* C1 witness: a player at the cap goes through one more refresh and stays at 12
C1_Witness ==
    \E i \in Seats :
        /\ pc = "event"
        /\ era = NumEras - 1
        /\ players[i].markers = MaxMarkers
        /\ players[i].extinctions_survived > 0

\* C2: when an extinction event is resolved for a player whose tags meet the
\* event's safe_tags, the markers are what they were and survival is reported,
\* also when the tags meet doomed_tags as well.
C2_SafeFirst ==
    \A i \in Seats :
        Resolved(i) /\ Extinction /\ HasSafe(i) =>
            /\ players[i].markers = outcome.markers_before
            /\ outcome.survived_full

\* C2 witness: a resolved player whose tags meet both safe_tags and doomed_tags
C2_Witness ==
    \E i \in Seats :
        Resolved(i) /\ Extinction /\ HasSafe(i) /\ HasDoomed(i)

\* C3: a player's alleles are never negative: they start in 2..12 and a pass
\* of the acquisition loop leaves them at zero or more.
C3_AllelesNonNegative ==
    /\ \A i \in Seats : players[i].alleles >= 0
    /\ pc = "income" /\ era = 0 /\ idx = 1 =>
         \A i \in Seats :
             players[i].alleles \in MinStartAlleles..MaxStartAlleles

\* C3 witness: an acquisition that spent the whole balance
C3_Witness ==
    \E i \in Seats :
        /\ pc = "acquire"
        /\ last_buy.seat = i
        /\ last_buy.taken
        /\ last_buy.alleles_before > 0
        /\ players[i].alleles = 0

\* C4: with a player count of zero or less, simulate_game rejects the call
\* at entry: no era runs, no event is drawn, and there is no failure after
\* the eras.
C4_RejectedAtEntry ==
    num_players <= 0 =>
        /\ era = 0
        /\ event = NoEvent
        /\ pc # "IndexError"

\* the rate comparison of C5: every seated strategy counts, with 0 wins if
\* it has no entry
SpreadOverSeated ==
    LET wins(s) == IF s \in DOMAIN strategy_wins THEN strategy_wins[s] ELSE 0
        counts == { wins(s) : s \in seated(num_players) }
    IN  MaxOf(counts) - MinOf(counts)

\* C5: after a batch of N games the verdict is imbalanced exactly when the
\* spread of the win rates wins/N over the strategies that took part,
\* those without a win included, is at least 0.15.
C5_VerdictOverSeated ==
    verdict \in {"BALANCED", "IMBALANCED"} =>
        (verdict = "IMBALANCED"
            <=> SpreadOverSeated * ThresholdDen >= ThresholdNum * num_games)

RECURSIVE SumComplexity(_)
SumComplexity(ids) ==
    IF ids = {} THEN 0
    ELSE LET t == CHOOSE x \in ids : TRUE
         IN  TraitDb[t].complexity + SumComplexity(ids \ {t})

\* the score of C6, from the player's fields
FinalScore(i) ==
    players[i].markers * SumComplexity(Range(players[i].traits))
        + 3 * players[i].tiles_controlled

\* C6: at the end of a game the ranking lists every player once with its
\* score, in non-increasing score order with equal scores in seat order, and
\* the winner is the lowest seat among the players of maximal score.
C6_Ranking ==
    pc = "Finished" =>
        /\ Len(results) = Len(players)
        /\ { results[k].name : k \in DOMAIN results } = Seats
        /\ \A k \in DOMAIN results : results[k].score = FinalScore(results[k].name)
        /\ \A k, l \in DOMAIN results :
             k < l =>
                \/ results[k].score > results[l].score
                \/ /\ results[k].score = results[l].score
                   /\ results[k].name < results[l].name
        /\ winner \in Seats
        /\ \A i \in Seats :
             \/ FinalScore(i) < FinalScore(winner)
             \/ FinalScore(i) = FinalScore(winner) /\ winner <= i

\* C6 witness: two players tie for the highest score behind a lower-scoring
\* first seat
C6_Witness ==
    /\ pc = "Finished"
    /\ Len(players) = 3
    /\ FinalScore(2) = FinalScore(3)
    /\ FinalScore(1) < FinalScore(2)
    /\ winner = 2

EventsDrawn ==
    LET left == pool.Bloom + pool.IceAge + pool.Impact
        total == all_events.Bloom + all_events.IceAge + all_events.Impact
    IN  total - left

PhaseRank ==
    CASE pc = "NotStarted" -> 0
      [] pc = "income" -> 1
      [] pc \in {"choose", "acquire"} -> 2
      [] pc = "refresh" -> 3
      [] pc = "event" -> 4
      [] pc = "score" -> 5
      [] OTHER -> 6

\* grows with every step of a game and is bounded
Progress ==
    << era, PhaseRank, idx, (IF pc = "acquire" THEN 1 ELSE 0), 0 - Len(acquired) >>

C7_State ==
    /\ era \in 0..NumEras
    /\ idx \in 1..(Len(players) + 1)
    /\ EventsDrawn = (IF pc = "event" THEN era + 1 ELSE era)
    /\ pc \in {"income", "choose", "acquire", "refresh", "event"} => era < NumEras
    /\ pc \in {"score", "Finished", "IndexError"} => era = NumEras
    /\ num_players >= 1 /\ pc = "Finished" =>
         Len(results) = num_players /\ winner \in 1..num_players

C7_Step ==
    /\ KeyLess(Progress, Progress')
    /\ era' \in {era, era + 1}
    /\ era' = era + 1 => pc = "event" /\ idx = Len(players) + 1
    /\ pc # "event" /\ pc' = "event" => event' \in Range(EventDb) /\ idx' = 1

\* C7: a game with at least one player runs the eras 0..11 once each and in
\* order, draws one event per era and resolves it for every player, and
\* always ends Finished with a result.
C7_ErasInOrder ==
    /\ [][C7_Step /\ C7_State']_vars
    /\ (num_players >= 1 => <>(pc = "Finished"))

\* C7 witness: a finished game of seated players, twelve events drawn
C7_Witness ==
    /\ pc = "Finished"
    /\ num_players >= 1
    /\ era = NumEras
    /\ EventsDrawn = NumEras

\* C8: a strategy call leaves the player and the available list as they
\* were, and a second call on what it left returns the same list of ids.
C8_StrategyPure ==
    [][ pc = "choose" /\ pc' = "acquire" =>
          /\ players' = players
          /\ available' = get_available_traits(players[idx], era)
          /\ choose(players'[idx], available').acquired = acquired' ]_vars

\* C8 witness: a call that returned several ids and left some available out
C8_Witness ==
    /\ pc = "acquire"
    /\ last_buy = NoBuy
    /\ Len(acquired) >= 2
    /\ Len(available) > Len(acquired)

\* C9: what an acquisition takes from the alleles is
\* max(0, cost - min(k, 3)), k the number of the trait's soft prerequisites
\* owned just before; it is never negative and never more than 3 below cost.
C9_DiscountedCost ==
    \A i \in Seats :
        pc = "acquire" /\ last_buy.seat = i /\ last_buy.taken =>
            LET tid == last_buy.tid
                before == SubSeq(players[i].traits, 1, Len(players[i].traits) - 1)
                k == Cardinality(TraitDb[tid].soft_prereqs \cap Range(before))
                paid == last_buy.alleles_before - players[i].alleles
                full == TraitDb[tid].cost
            IN  /\ paid = Max2(0, full - Min2(k, 3))
                /\ paid >= 0
                /\ full - paid <= 3

\* C9 witness: an acquisition with four soft prerequisites owned
C9_Witness ==
    \E i \in Seats :
        /\ pc = "acquire"
        /\ last_buy.seat = i
        /\ last_buy.taken
        /\ Cardinality(TraitDb[last_buy.tid].soft_prereqs
                         \cap Range(players[i].traits)) >= 4

CeilHalf(m) == (m \div 2) + (m % 2)

\* C10: an extinction event resolved for a player whose tags meet
\* doomed_tags and not safe_tags leaves max(1, m - ceil(m/2)) markers, m the
\* markers before, and reports a loss; 3 markers become 1 and 1 stays 1.
C10_DoomedLoss ==
    \A i \in Seats :
        Resolved(i) /\ Extinction /\ ~ HasSafe(i) /\ HasDoomed(i) =>
            LET m == outcome.markers_before
            IN  /\ players[i].markers = Max2(1, m - CeilHalf(m))
                /\ ~ outcome.survived_full
                /\ m = 3 => players[i].markers = 1
                /\ m = 1 => players[i].markers = 1

\* C10 witness: a doomed player with a single marker
C10_Witness ==
    \E i \in Seats :
        /\ Resolved(i) /\ Extinction /\ ~ HasSafe(i) /\ HasDoomed(i)
        /\ outcome.markers_before = 1
        /\ players[i].markers = 1

\* C11: an extinction event resolved for a player whose tags meet neither
\* safe_tags nor doomed_tags is decided by one die roll r of 1..6: all markers
\* are kept exactly when r >= the event's neutral_roll (4 when it has none),
\* otherwise max(1, m - ceil(m/2)) markers are left; for every threshold 1..6.
C11_NeutralRoll ==
    \A i \in Seats :
        Resolved(i) /\ Extinction /\ ~ HasSafe(i) /\ ~ HasDoomed(i) =>
            LET m == outcome.markers_before
                r == outcome.roll
                threshold == IF event.neutral_roll \in 1..6 THEN event.neutral_roll
                             ELSE 4
            IN  /\ r \in 1..6
                /\ outcome.survived_full <=> r >= threshold
                /\ r >= threshold => players[i].markers = m
                /\ r < threshold => players[i].markers = Max2(1, m - CeilHalf(m))

\* C11 witness: a roll of 5 that fails against a threshold of 6
C11_Witness ==
    \E i \in Seats :
        /\ Resolved(i) /\ Extinction /\ ~ HasSafe(i) /\ ~ HasDoomed(i)
        /\ event.neutral_roll = 6
        /\ outcome.roll = 5
        /\ outcome.markers_before = 5
        /\ players[i].markers = 2

\* C12: resolving an event whose type is not extinction changes no field of
\* any player and reports survival; resolving any event leaves every player's
\* traits, alleles and tiles_controlled as they were.
C12_EventFrame ==
    [][ pc = "event" /\ idx' = idx + 1 =>
          /\ \A i \in Seats :
                /\ players'[i].traits = players[i].traits
                /\ players'[i].alleles = players[i].alleles
                /\ players'[i].tiles_controlled = players[i].tiles_controlled
          /\ ~ Extinction => players' = players /\ outcome'.survived_full ]_vars

\* C12 witness: a resolved event that is no extinction though its doomed_tags
\* meet the player's tags
C12_Witness ==
    \E i \in Seats :
        /\ Resolved(i) /\ ~ Extinction /\ ~ HasSafe(i) /\ HasDoomed(i)
        /\ outcome.markers_before > 1
        /\ players[i].markers = outcome.markers_before
        /\ players[i].extinctions_survived = 0

\* the traits a player has appended since the era began
AcquiredThisEra(i) ==
    { tid \in Range(players[i].traits) : tid \notin Range(era_log.start[i].traits) }

C14_NoDuplicateTraits ==
    \A i \in Seats :
        \A k, l \in DOMAIN players[i].traits :
            players[i].traits[k] = players[i].traits[l] => k = l

\* C14 witness: a player with the seed and earlier traits appends two traits
\* of the list offered in one era
C14_Witness ==
    /\ pc = "acquire"
    /\ idx \in Seats
    /\ era >= 1
    /\ Head(players[idx].traits) = SeedTrait
    /\ Len(players[idx].traits) >= 4
    /\ Cardinality(Range(players[idx].traits) \cap Range(available)) >= 2

\* C15: in the final state of a game every owned trait but the seed has all
\* its hard prerequisites among the owned traits, and every trait that the
\* available-traits filter returns for era 11 on a final trait list has all
\* its hard prerequisites owned.
C15_HardPrereqsAtEnd ==
    pc = "Finished" =>
        \A i \in Seats :
            LET owned == Range(players[i].traits)
            IN  /\ \A tid \in owned \ {SeedTrait} :
                      TraitDb[tid].hard_prereqs \subseteq owned
                /\ \A tid \in Range(get_available_traits(players[i], NumEras - 1)) :
                      TraitDb[tid].hard_prereqs \subseteq owned

\* C15 witness: a game ends with one player who owns the hard prerequisite
\* of a trait the filter returns for era 11, and another who does not own it
C15_Witness ==
    /\ pc = "Finished"
    /\ \E i \in Seats :
          /\ "synapsid_skull" \in Range(players[i].traits)
          /\ "endothermy" \in Range(get_available_traits(players[i], NumEras - 1))
    /\ \E j \in Seats :
          /\ "synapsid_skull" \notin Range(players[j].traits)
          /\ Len(players[j].traits) >= 3

\* what a trait costs a player: max(0, cost - min(soft prerequisites owned, 3))
Discounted(p, tid) ==
    LET k == Cardinality(TraitDb[tid].soft_prereqs \cap Range(p.traits))
    IN  Max2(0, TraitDb[tid].cost - Min2(k, 3))

RECURSIVE TotalDiscounted(_, _)
TotalDiscounted(p, ids) ==
    IF ids = {} THEN 0
    ELSE LET t == CHOOSE x \in ids : TRUE
         IN  Discounted(p, t) + TotalDiscounted(p, ids \ {t})

\* the place of an id in the list offered
Offered(tid) == CHOOSE k \in DOMAIN available : available[k] = tid

SurvivalTagCount(tid) ==
    Cardinality(TraitDb[tid].tags \cap
                  {"Burrowing", "Small", "Freshwater", "Deep-Sea", "Cold-Resistant"})

\* the generalist's rank order
GeneralistBefore(p, a, b) ==
    \/ SurvivalTagCount(a) > SurvivalTagCount(b)
    \/ /\ SurvivalTagCount(a) = SurvivalTagCount(b)
       /\ \/ Discounted(p, a) < Discounted(p, b)
          \/ Discounted(p, a) = Discounted(p, b) /\ Offered(a) < Offered(b)

\* the specialist's order of consideration for the player's clade
SpecialistBefore(p, a, b) ==
    LET path == IF p.strategy \in DOMAIN clade_paths THEN clade_paths[p.strategy]
                ELSE << >>
        OnPath(x) == \E k \in DOMAIN path : path[k] = x
        Place(x) == CHOOSE k \in DOMAIN path : path[k] = x
    IN  \/ OnPath(a) /\ ~ OnPath(b)
        \/ OnPath(a) /\ OnPath(b) /\ Place(a) < Place(b)
        \/ /\ ~ OnPath(a) /\ ~ OnPath(b)
           /\ \/ Discounted(p, a) < Discounted(p, b)
              \/ Discounted(p, a) = Discounted(p, b) /\ Offered(a) < Offered(b)

\* C16: the generalist returns ids in rank order (more survival tags first,
\* then lower discounted cost, ties in the order of the list offered), takes
\* a trait exactly when its discounted cost fits in what the traits taken
\* before it leave of the budget, and spends at most the budget; budget 10
\* with A (cost 5, Burrowing) and B (cost 3, no tags) returns [A, B].
C16_GeneralistPolicy ==
    pc = "returned" /\ players[1].strategy = "generalist" =>
        LET p == players[1]
            budget == p.alleles
            taken == Range(acquired)
            left(tid) == budget - TotalDiscounted(p,
                            { u \in taken : GeneralistBefore(p, u, tid) })
        IN  /\ \A k, l \in DOMAIN acquired :
                  k < l => GeneralistBefore(p, acquired[k], acquired[l])
            /\ \A tid \in Range(available) :
                  tid \in taken <=> Discounted(p, tid) <= left(tid)
            /\ taken \subseteq Range(available)
            /\ TotalDiscounted(p, taken) <= budget
            /\ p.traits = << >> /\ budget = 10
                  /\ Range(available) = {"burrowing", "diapsid_skull"}
                  => acquired = << "burrowing", "diapsid_skull" >>

\* C16 witness: the example, with the cheaper trait offered first
C16_Witness ==
    /\ pc = "returned"
    /\ players[1].strategy = "generalist"
    /\ players[1].traits = << >>
    /\ players[1].alleles = 10
    /\ available = << "diapsid_skull", "burrowing" >>
    /\ acquired = << "burrowing", "diapsid_skull" >>

\* C17: the specialist considers every offered trait on its clade's path
\* before every trait off it, path traits in path order and the others by
\* ascending discounted cost, takes each exactly when its discounted cost
\* fits in what is left of the budget, and spends at most the budget.
C17_SpecialistPolicy ==
    pc = "returned" /\ players[1].strategy # "generalist" =>
        LET p == players[1]
            budget == p.alleles
            taken == Range(acquired)
            left(tid) == budget - TotalDiscounted(p,
                            { u \in taken : SpecialistBefore(p, u, tid) })
        IN  /\ \A k, l \in DOMAIN acquired :
                  k < l => SpecialistBefore(p, acquired[k], acquired[l])
            /\ \A tid \in Range(available) :
                  tid \in taken <=> Discounted(p, tid) <= left(tid)
            /\ taken \subseteq Range(available)
            /\ TotalDiscounted(p, taken) <= budget

\* C17 witness: a path trait is taken before a cheaper trait off the path,
\* and a later path trait that no longer fits is passed over
C17_Witness ==
    /\ pc = "returned"
    /\ players[1].strategy = "Mammalia"
    /\ players[1].alleles = 12
    /\ available = << "diapsid_skull", "fur", "synapsid_skull" >>
    /\ acquired = << "synapsid_skull", "diapsid_skull" >>

\* the Turn Engine of the design: one player taken alone through one era,
\* income, acquisition, refresh and event in a row
TurnEngine(p, e, ev, d1, d2, tiles, roll) ==
    LET paid == [p EXCEPT !.alleles = @ + simulate_allele_roll(p, d1, d2)]
        call == choose(paid, get_available_traits(paid, e))
        grown == acquire_all(call.player, call.acquired)
        settled == refresh(grown, tiles)
    IN  simulate_extinction(settled, ev, roll).p

\* the era's event has been resolved for every player
EraOver == pc = "event" /\ idx > Len(players)

\* C18: the era run phase by phase over all players leaves every player in
\* the state the Turn Engine gives when it takes that player alone through
\* income, acquisition, refresh and event, from the player's own state at
\* the start of the era, with the player's own dice, tiles and roll and with
\* the era's event.
C18_PhaseOrderEquivalence ==
    era_log.on /\ EraOver =>
        \A i \in Seats :
            players[i] = TurnEngine(era_log.start[i], era, event,
                                    era_log.dice[i][1], era_log.dice[i][2],
                                    era_log.tiles[i], era_log.rolls[i])

\* C18 witness: an era of several players of different strategies in which
\* one player acquired a trait and another lost markers to the event
C18_Witness ==
    /\ era_log.on
    /\ EraOver
    /\ Extinction
    /\ era >= 2
    /\ \E i, j \in Seats :
          /\ i # j
          /\ AcquiredThisEra(i) # {}
          /\ players[j].markers < era_log.start[j].markers
          /\ era_log.start[i].markers # era_log.start[j].markers
          /\ era_log.start[i].alleles # era_log.start[j].alleles

PopulationBonus(markers) == IF markers >= 7 THEN 2 ELSE IF markers >= 4 THEN 1 ELSE 0

RECURSIVE TotalFecundity(_)
TotalFecundity(ids) ==
    IF ids = {} THEN 0
    ELSE LET t == CHOOSE x \in ids : TRUE
         IN  TraitDb[t].fecundity_bonus + TotalFecundity(ids \ {t})

\* the income step of players[idx]
IncomeStep == pc = "income" /\ idx' = idx + 1

\* what the income step adds to the alleles, from the player as the step
\* finds it
C19_Step ==
    /\ IncomeStep =>
          \E sum \in 2..12 :
              players'[idx].alleles =
                  players[idx].alleles + sum
                    + PopulationBonus(players[idx].markers)
                    + players[idx].tiles_controlled
                    + TotalFecundity(Range(players[idx].traits))
    /\ \A i \in Seats \cap DOMAIN players' :
          /\ players'[i].tiles_controlled # players[i].tiles_controlled =>
                pc = "refresh" /\ i = idx /\ players'[i].tiles_controlled \in 1..3
          /\ players'[i].markers # players[i].markers => pc \in {"refresh", "event"}
          /\ players'[i].traits # players[i].traits => pc = "acquire"
    /\ pc' = "income" /\ pc # "income" =>
          \/ pc = "NotStarted"
          \/ pc = "event" /\ era' = era + 1

\* C19: the income of an era is the dice sum (2..12) + the population bonus
\* of the markers as they are before the era's refresh + the tiles drawn in
\* the era before (0 in era 0) + the fecundity bonuses of the traits owned
\* before the era's acquisitions: the refresh that draws the era's tiles and
\* the acquisitions run only after the era's income, so the tiles drawn in
\* an era are first used by the income of the next.
C19_IncomeComposition ==
    /\ [][C19_Step]_vars
    /\ [](pc = "income" /\ era = 0 =>
             \A i \in Seats : players[i].tiles_controlled = 0)
    /\ [](pc = "income" /\ era > 0 =>
             \A i \in Seats : players[i].tiles_controlled \in 1..3)

\* C19 witness: an income in a later era with a population bonus of 2, three
\* tiles from the era before and a fecundity bonus
C19_Witness ==
    /\ pc = "income"
    /\ era >= 1
    /\ idx = 2
    /\ players[1].markers >= 7
    /\ players[1].tiles_controlled = 3
    /\ "endothermy" \in Range(players[1].traits)

RECURSIVE ExtinctionsAmong(_)
ExtinctionsAmong(names) ==
    IF names = {} THEN 0
    ELSE LET n == CHOOSE x \in names : TRUE
             drawn == IF EventDb[n].event_type = "extinction"
                      THEN all_events[n] - pool[n] ELSE 0
         IN  drawn + ExtinctionsAmong(names \ {n})

\* the extinction events drawn so far
ExtinctionsDrawn == ExtinctionsAmong(EventNames)

\* the era's event is an extinction that seat i has not resolved yet
Unresolved(i) == pc = "event" /\ Extinction /\ i >= idx

C20_Step ==
    \A i \in Seats \cap DOMAIN players' :
        players'[i].extinctions_survived =
            IF pc = "event" /\ idx' = idx + 1 /\ i = idx /\ Extinction
            THEN players[i].extinctions_survived + 1
            ELSE players[i].extinctions_survived

\* C20 as first stated: at every point of a game all players have the same
\* extinctions_survived.
C20_SameAtEveryPoint ==
    \A i, j \in Seats :
        players[i].extinctions_survived = players[j].extinctions_survived

\* C20: extinctions_survived never decreases, is left alone by an event that
\* is no extinction, and grows by exactly 1 when a player resolves an
\* extinction event, whatever the outcome; so outside the event loop all
\* players have the same extinctions_survived, the number of extinction
\* events drawn so far, and inside the loop of an extinction event the
\* players not yet resolved are one behind.
C20_ExtinctionCounter ==
    /\ [][C20_Step]_vars
    /\ [](\A i \in Seats :
             players[i].extinctions_survived =
                 ExtinctionsDrawn - (IF Unresolved(i) THEN 1 ELSE 0))

\* C20 witness: both extinction events are over, the second with one player
\* safe and another losing markers, and both players count 2
C20_Witness ==
    /\ EraOver
    /\ Extinction
    /\ ExtinctionsDrawn = 2
    /\ \E i, j \in Seats :
          /\ HasSafe(i)
          /\ ~ HasSafe(j)
          /\ outcome.seat = j
          /\ ~ outcome.survived_full
          /\ players[i].extinctions_survived = 2
          /\ players[j].extinctions_survived = 2

\* the traits players[idx] owned when its running acquisition phase began:
\* those that were not in the list offered
OwnedAtPhaseStart ==
    [ traits |-> SelectSeq(players[idx].traits,
                           LAMBDA tid : tid \notin Range(available)) ]

\* what the policy reckoned for a trait: its discounted cost at phase start
PolicyCost(tid) == Discounted(OwnedAtPhaseStart, tid)

RECURSIVE TotalPolicyCost(_)
TotalPolicyCost(ids) ==
    IF ids = << >> THEN 0
    ELSE PolicyCost(Head(ids)) + TotalPolicyCost(Tail(ids))

\* one pass of the acquisition loop
C21_Step ==
    pc = "acquire" /\ acquired # << >> /\ acquired' = Tail(acquired) =>
        LET tid == Head(acquired)
            paid == players[idx].alleles - players'[idx].alleles
        IN  /\ players'[idx].traits = Append(players[idx].traits, tid)
            /\ paid = Discounted(players[idx], tid)
            /\ paid <= PolicyCost(tid)

\* C21: the re-check of the acquisition loop never rejects: every id the
\* policy returned is appended in that era, since the costs the policy
\* reckoned sum to at most the budget and a trait's discounted cost only
\* falls as the traits chosen before it are appended; what a pass deducts
\* is at most what the policy reckoned for the trait.
C21_RecheckNeverRejects ==
    /\ [][C21_Step]_vars
    /\ [](pc = "acquire" =>
             /\ TotalPolicyCost(acquired) <= players[idx].alleles
             /\ last_buy.seat = idx => last_buy.taken)

\* C21 witness: a trait is appended for less than the policy reckoned,
\* a soft prerequisite of it having been appended earlier in the same phase
C21_Witness ==
    /\ pc = "acquire"
    /\ last_buy.seat = idx
    /\ last_buy.taken
    /\ last_buy.alleles_before - players[idx].alleles < PolicyCost(last_buy.tid)

=============================================================================
